---- MODULE Spec2Model ----
(***************************************************************************)
(* A model of cryo-tutorial.ipynb: load_protein, the demonstration call of *)
(* the observation model, load_dataset, create_radial_mask and the         *)
(* training loop.  Tensors are kept on a grid of side 2; the numerical     *)
(* payload of a projection is an input, its shape and its provenance are   *)
(* modelled.                                                               *)
(***************************************************************************)
EXTENDS Integers, Sequences, FiniteSets, TLC

VARIABLES
    mk,      \* a call of create_radial_mask: arguments, position, outcome
    lp,      \* a call of load_protein: arguments, position, volume, steps done
    ls,      \* the loss of lines 259-260 applied to two observations
    pc,      \* the notebook's position: a cell, or a line of the training loop
    ns,      \* the kernel namespace: the names the cells have bound
    it,      \* the locals of the current training iteration
    last_call \* the last call of the observation model and its outcome

vars == <<mk, lp, ls, pc, ns, it, last_call>>
nbvars == <<pc, ns, it, last_call>>

\* an optional argument: None, or Some(x) holding x
None == <<>>
Some(x) == <<x>>
Get(o) == o[1]

\* a float: a finite number, or one of the non-finite values nan and inf
Fin(x) == [k |-> "fin", v |-> x]
NaN == [k |-> "nan", v |-> 0]
Inf == [k |-> "inf", v |-> 0]
Finite(x) == x.k = "fin"

(***************************************************************************)
(* Bounds                                                                  *)
(***************************************************************************)
MaxN == 6          \* largest side N of a mask shape (N, N)
MaxRadius == 5     \* largest radius argument of create_radial_mask
MaxData == 2       \* largest number of images in the dataset
MaxIter == 2       \* largest num_iterations

RECURSIVE SumSeq(_)
SumSeq(s) == IF s = <<>> THEN 0 ELSE Head(s) + SumSeq(Tail(s))

(***************************************************************************)
(* create_radial_mask(shape, radius=None), lines 230-243.                  *)
(* np.ogrid[-a:N-a] with a = N/2 holds the N values i - N/2, i = 0..N-1;   *)
(* they are kept doubled (2i - N) so that an odd N stays in the integers.  *)
(***************************************************************************)
Coord2(N, i) == 2 * i - N

RadiusKept(radius) == radius

\* line 232: "radius -= 1." on the argument as passed (None has no "-=")
RadiusMinusOne(radius) == radius - 1

\* line 241: mask = x * x + y * y <= radius * radius
InDisk(N, r, i, j) ==
    Coord2(N, j) * Coord2(N, j) + Coord2(N, i) * Coord2(N, i) <= 4 * r * r

create_radial_mask(N, radius) ==
    IF radius = None
    THEN [exc |-> "TypeError", mask |-> <<>>]          \* line 232 raises
    ELSE LET r == RadiusMinusOne(Get(radius)) IN
         IF r < 0
         THEN [exc |-> "none",                          \* lines 233-234
               mask |-> [i \in 0..(N-1) |-> [j \in 0..(N-1) |-> 0]]]
         ELSE [exc |-> "none",                          \* lines 239-243
               mask |-> [i \in 0..(N-1) |->
                          [j \in 0..(N-1) |-> IF InDisk(N, r, i, j) THEN 1 ELSE 0]]]

MaskInit ==
    \E N \in 1..MaxN, radius \in {None} \cup {Some(r) : r \in 0..MaxRadius} :
        mk = [pc |-> "call", N |-> N, radius |-> radius,
              exc |-> "none", mask |-> <<>>, num_pixels |-> 0]

IdleMask == [pc |-> "idle", N |-> 0, radius |-> None, exc |-> "none",
             mask |-> <<>>, num_pixels |-> 0]

\* line 246: num_pixels = mask.sum()
MaskSum(mask, N) ==
    SumSeq([i \in 1..N |-> SumSeq([j \in 1..N |-> mask[i-1][j-1]])])

MaskCall ==
    /\ mk.pc = "call"
    /\ LET res == create_radial_mask(mk.N, mk.radius) IN
       mk' = [mk EXCEPT !.pc = IF res.exc = "none" THEN "returned" ELSE "raised",
                        !.exc = res.exc, !.mask = res.mask]
    /\ UNCHANGED <<lp, ls, nbvars>>

MaskCount ==
    /\ mk.pc = "returned"
    /\ mk' = [mk EXCEPT !.pc = "summed", !.num_pixels = MaskSum(mk.mask, mk.N)]
    /\ UNCHANGED <<lp, ls, nbvars>>

(***************************************************************************)
(* load_protein(path, total_mass, D), lines 56-68.                         *)
(* The volume read from the file is a cube of side 2 of integer voxels.    *)
(* After the mass normalization a voxel is the fraction num / den; a       *)
(* voxel that is no longer a finite number is the token "nan" or "inf".    *)
(***************************************************************************)
Side == {0, 1}
Vox == Side \X Side \X Side
VoxelValues == {-1, 0, 1}
Volumes == [Vox -> VoxelValues]
TotalMass == 80000
MassValues == {None, Some(1), Some(TotalMass)}

VoxSeq == <<
    <<0,0,0>>, <<0,0,1>>, <<0,1,0>>, <<0,1,1>>,
    <<1,0,0>>, <<1,0,1>>, <<1,1,0>>, <<1,1,1>> >>

\* M.sum() over finite voxels; a non-finite voxel makes the sum non-finite
VolSum(num) ==
    IF \E v \in Vox : ~Finite(num[v]) THEN NaN
    ELSE Fin(SumSeq([n \in 1..Len(VoxSeq) |-> num[VoxSeq[n]].v]))

\* x * y in IEEE arithmetic, y a finite integer
MulTok(x, y) ==
    IF x.k = "nan" THEN NaN
    ELSE IF x.k = "inf" THEN (IF y = 0 THEN NaN ELSE Inf)
    ELSE Fin(x.v * y)

\* compute_premultiplier(D, kernel, ksize): the 1-D correction factors of the
\* kernel, positive and not uniform (their float values are not modelled)
compute_premultiplier(D, kernel, ksize) ==
    [i \in Side |-> IF kernel = "linear" /\ ksize = 2 THEN i + 2 ELSE i + 3]

\* line 61: the outer product of the 1-D factors over the three axes
Premult3(p) == [v \in Vox |-> p[v[1]] * p[v[2]] * p[v[3]]]

\* window(M, 'circle'): voxels outside the ball of radius N/2 around the
\* centre (index N/2) are set to 0, in place
InWindow(v) ==
    (v[1]-1)*(v[1]-1) + (v[2]-1)*(v[2]-1) + (v[3]-1)*(v[3]-1) < 2
Window(num) == [v \in Vox |-> IF InWindow(v) THEN num[v] ELSE Fin(0)]

\* line 63: M[M < 0] = 0
ClampNegative(num) ==
    [v \in Vox |-> IF Finite(num[v]) /\ num[v].v < 0 THEN Fin(0) ELSE num[v]]

\* line 65: M *= float(total_mass) / M.sum().  M.sum() is a numpy scalar, so
\* a zero sum gives the factor inf (or nan for total_mass 0) with a
\* RuntimeWarning, not an exception; 0 * inf is nan.
NormalizeMass(st, total_mass) ==
    LET s == VolSum(st.num) IN
    IF ~Finite(s) THEN [st EXCEPT !.num = [v \in Vox |-> NaN]]
    ELSE IF s.v = 0
    THEN [st EXCEPT !.num = [v \in Vox |->
                     IF ~Finite(st.num[v]) \/ st.num[v].v = 0 \/ total_mass = 0
                     THEN NaN ELSE Inf]]
    ELSE [st EXCEPT !.num = [v \in Vox |-> MulTok(st.num[v], total_mass)],
                    !.den = st.den * s.v]

\* line 66, first half: M * premult
Premultiply(st) ==
    [st EXCEPT !.num = [v \in Vox |-> MulTok(st.num[v], st.premult[v])]]

\* real_to_fspace on a grid of side 2: the discrete Fourier transform, whose
\* kernel there is (-1)^(k.n), so the imaginary part is 0
Sign(k, n) ==
    IF (k[1]*n[1] + k[2]*n[2] + k[3]*n[3]) % 2 = 0 THEN 1 ELSE -1
real_to_fspace(num) ==
    IF \E v \in Vox : ~Finite(num[v]) THEN [k \in Vox |-> NaN]
    ELSE [k \in Vox |->
            Fin(SumSeq([n \in 1..Len(VoxSeq) |->
                          Sign(k, VoxSeq[n]) * num[VoxSeq[n]].v]))]

LoadProteinOrderTransformFirst ==
    <<"window", "clamp", "normalize", "real_to_fspace", "premultiply", "pack">>

\* the statements of lines 62-68 in program order
LoadProteinOrder ==
    <<"window", "clamp", "normalize", "premultiply", "real_to_fspace", "pack">>

\* one statement of load_protein applied to the state of the call
ExecStmt(stmt, st) ==
    LET done == [st EXCEPT !.steps = Append(st.steps, stmt)] IN
    CASE stmt = "window" -> [done EXCEPT !.num = Window(st.num)]
      [] stmt = "clamp" -> [done EXCEPT !.num = ClampNegative(st.num)]
      [] stmt = "normalize" ->
            IF st.total_mass # None                      \* line 64
            THEN NormalizeMass(done, Get(st.total_mass))
            ELSE st
      [] stmt = "premultiply" -> Premultiply(done)
      [] stmt = "real_to_fspace" ->
            [done EXCEPT !.num = real_to_fspace(st.num), !.space = "fourier"]
      [] stmt = "pack" -> [done EXCEPT !.batch = 1]      \* line 68: unsqueeze(0)
      [] OTHER -> st

\* lines 57-61: readMRC, kernel = 'linear', ksize = 2, premult
LoadEnter(M, total_mass, D) ==
    [pc |-> "body", i |-> 1, M |-> M, total_mass |-> total_mass,
     kernel |-> "linear", ksize |-> 2,
     premult |-> Premult3(compute_premultiplier(D, "linear", 2)),
     num |-> [v \in Vox |-> Fin(M[v])], den |-> 1, space |-> "real",
     batch |-> 0, steps |-> <<>>]

IdleLoad ==
    [pc |-> "idle", i |-> 0, M |-> <<>>, total_mass |-> None,
     kernel |-> "", ksize |-> 0, premult |-> <<>>,
     num |-> <<>>, den |-> 1, space |-> "real", batch |-> 0, steps |-> <<>>]

RECURSIVE RunLoad(_)
RunLoad(st) ==
    IF st.i > Len(LoadProteinOrder) THEN [st EXCEPT !.pc = "returned"]
    ELSE RunLoad([ExecStmt(LoadProteinOrder[st.i], st) EXCEPT !.i = st.i + 1])

\* the whole call
load_protein(M, total_mass, D) == RunLoad(LoadEnter(M, total_mass, D))

LoadInit ==
    \E M \in Volumes, total_mass \in MassValues :
        lp = LoadEnter(M, total_mass, 2)

LoadStep ==
    /\ lp.pc = "body"
    /\ lp.i <= Len(LoadProteinOrder)
    /\ lp' = [ExecStmt(LoadProteinOrder[lp.i], lp) EXCEPT !.i = lp.i + 1]
    /\ UNCHANGED <<mk, ls, nbvars>>

LoadReturn ==
    /\ lp.pc = "body"
    /\ lp.i > Len(LoadProteinOrder)
    /\ lp' = [lp EXCEPT !.pc = "returned"]
    /\ UNCHANGED <<mk, ls, nbvars>>

(***************************************************************************)
(* Images: the D x D Fourier-domain arrays, D = 2 (one channel is kept).   *)
(***************************************************************************)
D == Cardinality(Side)
Pix == Side \X Side
PixSeq == << <<0,0>>, <<0,1>>, <<1,0>>, <<1,1>> >>
PixelValues == {0, 1}
Images == [Pix -> PixelValues]
\* the images of the dataset files and the projections the notebook's calls
\* of the observation model return: the constant images
FileImages == {[p \in Pix |-> c] : c \in PixelValues}

\* line 245: mask = create_radial_mask((D, D), int(D / 2))
NotebookMask == create_radial_mask(D, Some(D \div 2)).mask

(***************************************************************************)
(* The loss of lines 259-260:                                              *)
(*   observation_dist.log_prob(obs).sum() / num_pixels, negated.           *)
(* log_prob of Normal(mean, sigma) at x is                                 *)
(*   -(x - mean)^2 / (2 sigma^2) - ln(sigma) - ln(2 pi)/2   per element,   *)
(* so the loss is (sq / (2 sigma^2) + terms * c(sigma)) / den with sq the  *)
(* sum of the squared residuals, terms the number of elements summed and   *)
(* den = num_pixels; it is kept as the triple that determines it.          *)
(***************************************************************************)
\* the elements .sum() reduces over: every element of the log_prob tensor
SummedPixels == Pix

Loss(dist, obs, num_pixels) ==
    [sq |-> SumSeq([n \in 1..Len(PixSeq) |->
                IF PixSeq[n] \in SummedPixels
                THEN (obs[PixSeq[n]] - dist.mean[PixSeq[n]])
                     * (obs[PixSeq[n]] - dist.mean[PixSeq[n]])
                ELSE 0]),
     terms |-> Cardinality(SummedPixels),
     sigma |-> dist.sigma,
     den |-> num_pixels]

IdleLoss == [pc |-> "idle"]

LossInit ==
    \E mean \in Images, a \in Images, b \in Images :
        /\ \A p \in Pix : NotebookMask[p[1]][p[2]] = 1 => a[p] = b[p]
        /\ ls = [pc |-> "call", dist |-> [mean |-> mean, sigma |-> 1],
                 obsA |-> a, obsB |-> b,
                 num_pixels |-> MaskSum(NotebookMask, D)]

LossApply ==
    /\ ls.pc = "call"
    /\ ls' = [pc |-> "done", dist |-> ls.dist, obsA |-> ls.obsA, obsB |-> ls.obsB,
              num_pixels |-> ls.num_pixels,
              lossA |-> Loss(ls.dist, ls.obsA, ls.num_pixels),
              lossB |-> Loss(ls.dist, ls.obsB, ls.num_pixels)]
    /\ UNCHANGED <<mk, lp, nbvars>>

(***************************************************************************)
(* ScientificImagingObservationModel (observation_model.py).               *)
(* forward(volume, rotation, translation): a volume batch and a pose batch *)
(* whose sizes differ are an input-validation error; otherwise the         *)
(* noiseless projection is returned with Normal(projection, std_noise)     *)
(* when std_noise > 0 and with None when std_noise = 0.  The numbers of    *)
(* the projection are an input (mean).                                     *)
(***************************************************************************)
Unbound == [bound |-> FALSE]
NoDist == [none |-> TRUE]

forwardBroadcast(model, vol_batch, rot_batch, trans_batch, mean) ==
    [exc |-> "none",
     projection |-> [batch |-> rot_batch, mean |-> mean],
     dist |-> IF model.std_noise > 0
              THEN [batch |-> rot_batch, mean |-> mean, sigma |-> model.std_noise]
              ELSE [none |-> TRUE]]

BatchesAgree(vol_batch, rot_batch, trans_batch) ==
    vol_batch = rot_batch /\ rot_batch = trans_batch

forward(model, vol_batch, rot_batch, trans_batch, mean) ==
    IF ~BatchesAgree(vol_batch, rot_batch, trans_batch)
    THEN [exc |-> "ValidationError", projection |-> Unbound, dist |-> Unbound]
    ELSE [exc |-> "none",
          projection |-> [batch |-> vol_batch, mean |-> mean],
          dist |-> IF model.std_noise > 0
                   THEN [batch |-> vol_batch, mean |-> mean,
                         sigma |-> model.std_noise]
                   ELSE NoDist]

CallRecord(site, vol_batch, rot_batch, trans_batch, res) ==
    [made |-> TRUE, site |-> site, vol |-> vol_batch, rot |-> rot_batch,
     trans |-> trans_batch, exc |-> res.exc, projection |-> res.projection,
     dist |-> res.dist]

NoCall == [made |-> FALSE]

(***************************************************************************)
(* The notebook, cell by cell.  An exception ends the cell that raised it; *)
(* the names bound before it stay bound and the next cell can be run.      *)
(***************************************************************************)
BatchSize == 2      \* line 93
StdNoise == 0       \* line 102: std_noise=0.

NoLocals ==
    [iteration |-> 0, idx |-> 0, sample |-> Unbound, projection |-> Unbound,
     dist |-> Unbound, obs |-> Unbound, loss |-> Unbound, k |-> 0,
     trace |-> <<>>, exc |-> "none"]

EmptyNamespace ==
    [protein |-> Unbound, observation_model |-> Unbound, dataset |-> <<>>,
     num_data_points |-> 0, num_iterations |-> 0,
     grad |-> <<0, 0>>, updates |-> <<0, 0>>, params |-> FALSE,
     num_pixels |-> 0, completed |-> 0, R |-> Unbound, t |-> Unbound]

\* lines 71-73: protein = load_protein(path, total_mass=total_mass, D=D)
CellProtein ==
    /\ pc = "cell_protein"
    /\ \E M \in Volumes :
         LET res == load_protein(M, Some(TotalMass), D) IN
         ns' = [ns EXCEPT !.protein =
                   [batch |-> res.batch, num |-> res.num, den |-> res.den]]
    /\ pc' = "cell_demo"
    /\ UNCHANGED <<mk, lp, ls, it, last_call>>

\* lines 93-105: poses of batch_size 2, the model with std_noise=0., the call
DemoCall(model, protein, mean) ==
    forward(model, protein.batch, BatchSize, BatchSize, mean)

CellDemo ==
    /\ pc = "cell_demo"
    /\ LET model == [D |-> D, batch_size |-> BatchSize, std_noise |-> StdNoise] IN
       /\ ns' = [ns EXCEPT !.observation_model = model]
       /\ \E mean \in FileImages :
            last_call' = CallRecord("demo", ns.protein.batch, BatchSize, BatchSize,
                                    DemoCall(model, ns.protein, mean))
    /\ pc' = "cell_dataset"
    /\ UNCHANGED <<mk, lp, ls, it>>

\* load_dataset, lines 151-174: record index of pardata['EA'] and
\* pardata['t'] is the index of the image it is appended with
load_dataset(images) ==
    [i \in 1..Len(images) |->
        [observation |-> [rec |-> i - 1, img |-> images[i]],
         rotation |-> [rec |-> i - 1, batch |-> 1],
         translation |-> [rec |-> i - 1, batch |-> 1]]]

DatasetFiles ==
    UNION {[1..n -> FileImages] : n \in 1..MaxData}

CellDataset ==
    /\ pc = "cell_dataset"
    /\ \E images \in DatasetFiles :
         ns' = [ns EXCEPT !.dataset = load_dataset(images),
                          !.num_data_points = Len(images)]
    /\ pc' = "cell_params"
    /\ UNCHANGED <<mk, lp, ls, it, last_call>>

\* lines 190-195: protein_loc, protein_log_scale; no gradient yet
CellParams ==
    /\ pc = "cell_params"
    /\ ns' = [ns EXCEPT !.params = TRUE, !.grad = <<0, 0>>, !.updates = <<0, 0>>]
    /\ pc' = "cell_train"
    /\ UNCHANGED <<mk, lp, ls, it, last_call>>

(***************************************************************************)
(* The training cell, lines 213-266.                                       *)
(***************************************************************************)
\* lines 213-248: num_iterations, the two optimizers, mask, num_pixels
TrainSetup ==
    /\ pc = "cell_train"
    /\ \E n \in 0..MaxIter :
         ns' = [ns EXCEPT !.num_iterations = n,
                          !.num_pixels = MaskSum(NotebookMask, D),
                          !.completed = 0]
    /\ it' = NoLocals
    /\ pc' = "for"
    /\ UNCHANGED <<mk, lp, ls, last_call>>

\* line 249: for iteration in range(num_iterations)
LoopHead ==
    /\ pc = "for"
    /\ IF it.iteration < ns.num_iterations
       THEN /\ pc' = "randint"
            /\ it' = [NoLocals EXCEPT !.iteration = it.iteration]
       ELSE /\ pc' = "cell_check"
            /\ it' = it
    /\ UNCHANGED <<mk, lp, ls, ns, last_call>>

RandintInclusive(low, high) == low..high

\* line 250: numpy's random.randint(0, num_data_points): low <= idx < high
RandintRange(low, high) == low..(high - 1)

Randint ==
    /\ pc = "randint"
    /\ \E i \in RandintRange(0, ns.num_data_points) : it' = [it EXCEPT !.idx = i]
    /\ pc' = "rsample"
    /\ UNCHANGED <<mk, lp, ls, ns, last_call>>

\* lines 251-252: protein_dist.rsample((1,)): one sample, batch dimension 1
Rsample ==
    /\ pc = "rsample"
    /\ it' = [it EXCEPT !.sample = [batch |-> 1, loc |-> ns.updates[1],
                                    scale |-> ns.updates[2]],
                        !.trace = Append(it.trace, "rsample")]
    /\ pc' = "pose"
    /\ UNCHANGED <<mk, lp, ls, ns, last_call>>

\* the dataset record the loop reads for an index (0-based idx)
DataAt(dataset, idx) == dataset[idx + 1]

\* lines 254-255: t = translations[idx] / D, R = rotmat3D_EA(...[idx] ...)
Pose ==
    /\ pc = "pose"
    /\ ns' = [ns EXCEPT !.t = DataAt(ns.dataset, it.idx).translation,
                        !.R = DataAt(ns.dataset, it.idx).rotation]
    /\ pc' = "forward"
    /\ UNCHANGED <<mk, lp, ls, it, last_call>>

\* line 257: projection, observation_dist = observation_model(protein_sample, R, t)
Forward ==
    /\ pc = "forward"
    /\ \E mean \in FileImages :
         LET res == forward(ns.observation_model, it.sample.batch,
                            ns.R.batch, ns.t.batch, mean) IN
         /\ last_call' = CallRecord("train", it.sample.batch, ns.R.batch,
                                    ns.t.batch, res)
         /\ IF res.exc = "none"
            THEN /\ it' = [it EXCEPT !.projection = res.projection,
                                     !.dist = res.dist,
                                     !.trace = Append(it.trace, "observation_model")]
                 /\ pc' = "log_prob"
            ELSE /\ it' = [it EXCEPT !.exc = res.exc]
                 /\ pc' = "cell_check"
    /\ UNCHANGED <<mk, lp, ls, ns>>

\* lines 259-260: observation_dist.log_prob(observations[idx].unsqueeze(0));
\* None has no attribute log_prob, and the attribute is looked up before the
\* argument is evaluated
LogProb ==
    /\ pc = "log_prob"
    /\ IF it.dist = NoDist
       THEN /\ it' = [it EXCEPT !.exc = "AttributeError"]
            /\ pc' = "cell_check"
       ELSE /\ LET obs == DataAt(ns.dataset, it.idx).observation IN
               it' = [it EXCEPT !.obs = obs,
                                !.loss = Loss(it.dist, obs.img, ns.num_pixels),
                                !.trace = Append(it.trace, "loss")]
            /\ pc' = "backward"
    /\ UNCHANGED <<mk, lp, ls, ns, last_call>>

\* line 261: loss.backward() adds to the gradient of both parameters
Backward ==
    /\ pc = "backward"
    /\ ns' = [ns EXCEPT !.grad = <<ns.grad[1] + 1, ns.grad[2] + 1>>]
    /\ it' = [it EXCEPT !.trace = Append(it.trace, "backward"), !.k = 1]
    /\ pc' = "opt_step"
    /\ UNCHANGED <<mk, lp, ls, last_call>>

\* the optimizers of lines 223-225: 1 updates protein_loc, 2 protein_log_scale
StepName == <<"step_1", "step_2">>
ZeroGradName == <<"zero_grad_1", "zero_grad_2">>

\* lines 217-218: for opt in optimizer: opt.step()
OptStep ==
    /\ pc = "opt_step"
    /\ ns' = [ns EXCEPT !.updates[it.k] = ns.updates[it.k] + 1]
    /\ it' = [it EXCEPT !.trace = Append(it.trace, StepName[it.k])]
    /\ pc' = "opt_zero"
    /\ UNCHANGED <<mk, lp, ls, last_call>>

\* the optimizer after optimizer k in the list of lines 223-225 (0: none)
NextOptimizer(k) == IF k < 2 THEN k + 1 ELSE 0

\* line 219: opt.zero_grad(), then the next optimizer or the end of the for
OptZero ==
    /\ pc = "opt_zero"
    /\ ns' = [ns EXCEPT !.grad[it.k] = 0]
    /\ it' = [it EXCEPT !.trace = Append(it.trace, ZeroGradName[it.k]),
                        !.k = NextOptimizer(it.k)]
    /\ pc' = IF NextOptimizer(it.k) = 0 THEN "accumulate" ELSE "opt_step"
    /\ UNCHANGED <<mk, lp, ls, last_call>>

\* lines 265-266: error += loss; print; the next iteration
Accumulate ==
    /\ pc = "accumulate"
    /\ ns' = [ns EXCEPT !.completed = ns.completed + 1]
    /\ it' = [it EXCEPT !.iteration = it.iteration + 1]
    /\ pc' = "for"
    /\ UNCHANGED <<mk, lp, ls, last_call>>

\* line 282: observation_model(protein_loc.unsqueeze(0), R, t); R and t are
\* bound only when an iteration reached line 255
CellCheck ==
    /\ pc = "cell_check"
    /\ IF ns.R = Unbound
       THEN last_call' = last_call
       ELSE \E mean \in FileImages :
              last_call' = CallRecord("check", 1, ns.R.batch, ns.t.batch,
                              forward(ns.observation_model, 1, ns.R.batch,
                                      ns.t.batch, mean))
    /\ pc' = "end"
    /\ UNCHANGED <<mk, lp, ls, ns, it>>

IdleNotebook ==
    /\ pc = "idle"
    /\ ns = EmptyNamespace
    /\ it = NoLocals
    /\ last_call = NoCall

(***************************************************************************)
(* Specifications                                                          *)
(***************************************************************************)
\* The notebook run top to bottom.  The observation model of line 102 has
\* std_noise = 0, so line 259 raises in the first iteration and lines
\* 261-266 are never reached: their actions are part of TrainNext only.
Init ==
    /\ pc = "cell_protein"
    /\ ns = EmptyNamespace
    /\ it = NoLocals
    /\ last_call = NoCall
    /\ mk = IdleMask /\ lp = IdleLoad /\ ls = IdleLoss

Next ==
    \/ CellProtein \/ CellDemo \/ CellDataset \/ CellParams
    \/ TrainSetup \/ LoopHead \/ Randint \/ Rsample \/ Pose \/ Forward \/ LogProb
    \/ CellCheck

Spec == Init /\ [][Next]_vars

\* The training cell run in a namespace that holds any observation model
\* (std_noise 0 or positive) and any dataset.
TrainInit ==
    /\ pc = "cell_train"
    /\ \E images \in DatasetFiles, sigma \in {StdNoise, 1} :
         ns = [EmptyNamespace EXCEPT
                 !.protein = [batch |-> 1, num |-> <<>>, den |-> 1],
                 !.observation_model =
                     [D |-> D, batch_size |-> BatchSize, std_noise |-> sigma],
                 !.dataset = load_dataset(images),
                 !.num_data_points = Len(images),
                 !.params = TRUE]
    /\ it = NoLocals
    /\ last_call = NoCall
    /\ mk = IdleMask /\ lp = IdleLoad /\ ls = IdleLoss

TrainNext ==
    \/ TrainSetup \/ LoopHead \/ Randint \/ Rsample \/ Pose \/ Forward \/ LogProb
    \/ Backward \/ OptStep \/ OptZero \/ Accumulate

TrainSpec == TrainInit /\ [][TrainNext]_vars

MaskSpecInit == MaskInit /\ lp = IdleLoad /\ ls = IdleLoss /\ IdleNotebook
MaskNext == MaskCall \/ MaskCount
MaskSpec == MaskSpecInit /\ [][MaskNext]_vars

LoadSpecInit == LoadInit /\ mk = IdleMask /\ ls = IdleLoss /\ IdleNotebook
LoadNext == LoadStep \/ LoadReturn
LoadSpec == LoadSpecInit /\ [][LoadNext]_vars

LossSpecInit == LossInit /\ mk = IdleMask /\ lp = IdleLoad /\ IdleNotebook
LossNext == LossApply
LossSpec == LossSpecInit /\ [][LossNext]_vars

(***************************************************************************)
(* Properties                                                              *)
(***************************************************************************)
IsPrefix(s, t) == Len(s) <= Len(t) /\ s = SubSeq(t, 1, Len(s))

InBody == {"rsample", "pose", "forward", "log_prob", "backward",
           "opt_step", "opt_zero", "accumulate"}
AfterPose == InBody \ {"rsample", "pose"}
TrainEnded == pc \in {"cell_check", "end"}

IterationOrder ==
    <<"rsample", "observation_model", "loss", "backward",
      "step_1", "zero_grad_1", "step_2", "zero_grad_2">>

\* C1: every iteration of the training loop performs rsample, the
\* observation model, the loss, backward and, per optimizer, step then
\* zero_grad, in this order, none skipped or repeated; an iteration starts
\* with the gradients of both parameters cleared.
Claim_C1 ==
    /\ IsPrefix(it.trace, IterationOrder)
    /\ (pc = "for" \/ TrainEnded) /\ it.trace # <<>> => it.trace = IterationOrder
    /\ pc = "randint" => ns.grad = <<0, 0>>

\* C2: for even N and an integer radius >= 1, create_radial_mask((N, N),
\* radius) returns the N x N array that is 1 at centred coordinates (u, v),
\* u, v in -N/2 .. N/2-1, exactly when u*u + v*v <= (radius-1)^2, else 0.
Thm_C2 ==
    (mk.pc \in {"returned", "raised", "summed"} /\ mk.N % 2 = 0
       /\ mk.radius # None /\ Get(mk.radius) >= 1)
    => /\ mk.pc # "raised"
       /\ DOMAIN mk.mask = 0..(mk.N - 1)
       /\ \A i \in 0..(mk.N - 1) :
            /\ DOMAIN mk.mask[i] = 0..(mk.N - 1)
            /\ \A j \in 0..(mk.N - 1) :
                 LET u == i - (mk.N \div 2)
                     v == j - (mk.N \div 2)
                     r == Get(mk.radius) - 1
                 IN mk.mask[i][j] = IF u * u + v * v <= r * r THEN 1 ELSE 0

Wit_C2 ==
    /\ mk.pc = "returned" /\ mk.N = 4 /\ mk.radius = Some(2)
    /\ mk.mask[2][2] = 1 /\ mk.mask[2][3] = 1 /\ mk.mask[1][2] = 1
    /\ mk.mask[3][3] = 0 /\ mk.mask[0][0] = 0 /\ mk.mask[2][0] = 0

\* C3: the loss of an iteration does not depend on the observed value at a
\* pixel where the radial mask is 0: two observations that agree wherever
\* the mask is 1 give the same loss against the same distribution.
Claim_C3 ==
    ls.pc = "done" => ls.lossA = ls.lossB

\* C4: the observation model with std_noise = 0 returns its projection with
\* no distribution, a distribution is returned only when std_noise > 0, and
\* log_prob in the training loop is only evaluated on the result of a model
\* whose std_noise is > 0.
Claim_C4 ==
    /\ (last_call.made /\ last_call.exc = "none")
         => (last_call.dist = NoDist <=> ns.observation_model.std_noise = 0)
    /\ pc = "log_prob" => ns.observation_model.std_noise > 0

\* C5: load_protein with total_mass not None and a volume whose voxels sum
\* to zero after windowing and clamping raises at the mass normalization
\* and never holds or returns a volume with a nan or infinite voxel.
ZeroMass(M) ==
    VolSum(ClampNegative(Window([v \in Vox |-> Fin(M[v])]))) = Fin(0)

Claim_C5 ==
    (lp.pc \in {"body", "returned"} /\ lp.total_mass # None /\ ZeroMass(lp.M))
    => /\ lp.pc # "returned"
       /\ \A v \in Vox : Finite(lp.num[v])

Claim_C7 ==
    TrainEnded
    => /\ ns.completed = ns.num_iterations
       /\ ns.updates = <<ns.num_iterations, ns.num_iterations>>
       /\ it.exc = "none"

\* C8: create_radial_mask called without a radius returns, without raising,
\* the N x N mask of 0/1 values of the default radius int(N/2).
Claim_C8 ==
    (mk.pc \in {"returned", "raised", "summed"} /\ mk.radius = None)
    => /\ mk.pc # "raised"
       /\ mk.mask = create_radial_mask(mk.N, Some(mk.N \div 2)).mask

\* C9: in every training iteration 0 <= idx < num_data_points, and the
\* translation, the rotation and the observation the iteration uses are
\* those of dataset record idx.
Thm_C9 ==
    /\ pc \in InBody => (0 <= it.idx /\ it.idx < ns.num_data_points)
    /\ pc \in AfterPose => (ns.t.rec = it.idx /\ ns.R.rec = it.idx)
    /\ it.obs # Unbound => it.obs.rec = it.idx

Wit_C9 ==
    /\ pc = "backward" /\ it.idx = 1 /\ ns.num_data_points = 2
    /\ it.obs.rec = 1 /\ ns.R.rec = 1 /\ ns.t.rec = 1

\* C10: load_protein windows the volume, clamps negative voxels, normalizes
\* the mass (only when total_mass is not None), multiplies by the
\* premultiplier of kernel 'linear' and support 2, and then transforms to
\* Fourier space, in this order on every call, the premultiplier being
\* applied once and to the real-space volume.
ExpectedSteps(total_mass) ==
    IF total_mass = None
    THEN <<"window", "clamp", "premultiply", "real_to_fspace", "pack">>
    ELSE <<"window", "clamp", "normalize", "premultiply", "real_to_fspace", "pack">>

ExpectedVolume(M, total_mass, premult) ==
    LET clamped == ClampNegative(Window([v \in Vox |-> Fin(M[v])]))
        massed == IF total_mass = None THEN clamped
                  ELSE NormalizeMass([num |-> clamped, den |-> 1],
                                     Get(total_mass)).num
    IN real_to_fspace([v \in Vox |-> MulTok(massed[v], premult[v])])

Thm_C10 ==
    lp.pc \in {"body", "returned"}
    => /\ IsPrefix(lp.steps, ExpectedSteps(lp.total_mass))
       /\ lp.kernel = "linear" /\ lp.ksize = 2
       /\ lp.premult = Premult3(compute_premultiplier(D, "linear", 2))
       /\ (lp.space = "fourier") = (\E n \in 1..Len(lp.steps) :
                                      lp.steps[n] = "real_to_fspace")
       /\ lp.pc = "returned"
            => /\ lp.steps = ExpectedSteps(lp.total_mass)
               /\ lp.num = ExpectedVolume(lp.M, lp.total_mass, lp.premult)

Wit_C10 ==
    /\ lp.pc = "returned" /\ lp.total_mass = Some(1)
    /\ Len(lp.steps) = 6 /\ lp.space = "fourier"
    /\ \E v \in Vox : Finite(lp.num[v]) /\ lp.num[v].v # 0
====
